---- MODULE Spec2Model ----
(***************************************************************************)
(* GpioDoorbellAccessory (homebridge-gpio-doorbell-mick111): the pin-change *)
(* glitch filter, the throttle, the output mirroring, the ring dispatch and *)
(* the persisted mute flag.                                                 *)
(*                                                                          *)
(* Optional booleans of the source (boolean | undefined) are the strings    *)
(* "true", "false", "undefined"; an optional number is a natural or NoTime. *)
(* The clock is Date.now() in milliseconds.                                 *)
(***************************************************************************)
EXTENDS Integers, Sequences, FiniteSets

\* ---------------------------------------------------------------- bounds
MaxTime == 5        \* the clock stops advancing here
MaxTimers == 2      \* pending setTimeout callbacks
MaxStart == 1       \* SpecHandlers: latest clock value of an initial state
GlitchTime == 2     \* config.glitchTime (ms)
ThrottleTime == 3   \* config.throttleTime (ms)

\* ---------------------------------------------------------------- values
Undefined == "undefined"
NoTime == -1
Tri == {"true", "false", Undefined}

\* a boolean as the source's boolean | undefined
Level(b) == IF b THEN "true" ELSE "false"

\* JavaScript's !v : undefined and false are falsy
Not(v) == v \in {"false", Undefined}

\* JavaScript's truthiness of number | undefined : undefined and 0 are falsy
Truthy(n) == n # NoTime /\ n # 0

\* JavaScript's  stored || false  on the persisted item
OrFalse(v) == v = "true"

Config == [enableOutput : BOOLEAN, negateInput : BOOLEAN,
           enableHttpTrigger : BOOLEAN, httpTriggerUrl : BOOLEAN]

VARIABLES
  cfg,                \* this.config (httpTriggerUrl: TRUE iff a URL is set)
  now,                \* Date.now()
  pinLevel,           \* live level of the input pin (TRUE: circuit open)
  currentPinValue,    \* this.currentPinValue
  lastPinChangeDate,  \* this.lastPinChangeDate
  lastRang,           \* this.lastRang
  doorbellMute,       \* this.doorbellMute
  stored,             \* the persisted item doorbellMuteKey
  timers,             \* pending setTimeout callbacks, in scheduling order
  outPin,             \* level of the output pin
  requests,           \* axios.get promises not yet settled
  lastSet,            \* argument of the latest handleMuteSet ("none" before)
  fx                  \* what the last step did

vars == <<cfg, now, pinLevel, currentPinValue, lastPinChangeDate, lastRang,
          doorbellMute, stored, timers, outPin, requests, lastSet, fx>>

\* effects of a step: output-pin writes, ring sinks, log.error calls, ...
\* (read: what this.read returned, "none" when it was not called)
Fx(op) == [op |-> op, stale |-> FALSE, superseded |-> FALSE, read |-> "none",
           accepted |-> FALSE, pushed |-> FALSE, throttled |-> FALSE, writes |-> <<>>,
           sinks |-> <<>>, ret |-> FALSE, failed |-> FALSE, errors |-> 0,
           uncaught |-> FALSE, fatal |-> FALSE]

\* ------------------------------------------------------------ pure parts

\* read(channel), lines 79-90: the promise's then/catch callbacks run only
\* after read has returned, so the value returned is always the declared,
\* never assigned, local: undefined, whatever the pin's level is.
read(level) == Undefined

ButtonPushedNotNegated(currentValue, negateInput) == Not(currentValue)

\* lines 146-150: buttonPushed = !currentValue, negated when negateInput
ButtonPushed(currentValue, negateInput) ==
  IF negateInput THEN ~Not(currentValue) ELSE Not(currentValue)

WritesOutputIgnoringMute(enableOutput, mute) == enableOutput

WritesOutputWhenMuted(enableOutput, mute) == enableOutput /\ mute

\* line 153: the output pin is written when output is enabled and not muted
WritesOutput(enableOutput, mute) == enableOutput /\ ~mute

ThrottledStrictly(last, t) == Truthy(last) /\ last + ThrottleTime > t

\* lines 166-169: this.lastRang && this.lastRang + throttleTime >= now
Throttled(last, t) == Truthy(last) /\ last + ThrottleTime >= t

RingSinkBothMissing(enableHttpTrigger, httpTriggerUrl) ==
  IF ~enableHttpTrigger /\ ~httpTriggerUrl THEN "local" ELSE "remote"

\* line 181: !enableHttpTrigger || !httpTriggerUrl selects the HomeKit event
RingSink(enableHttpTrigger, httpTriggerUrl) ==
  IF ~enableHttpTrigger \/ ~httpTriggerUrl THEN "local" ELSE "remote"

\* line 126: the callback goes on only for the current change identifier
IsLastChange(changeTimeStamp, last) == last = changeTimeStamp

MuteSetWritesOnMute(value, enableOutput) ==
  IF value /\ enableOutput THEN <<FALSE>> ELSE <<>>

IsNoChangeNever(currentValue, last) == FALSE

\* line 136: currentValue === this.currentPinValue ends the callback
IsNoChange(currentValue, last) == currentValue = last

RingsUnlessMuted(buttonPushed, mute) == buttonPushed /\ ~mute

RingsAlways(buttonPushed, mute) == TRUE

\* line 163: only a press goes on to the throttle test and the dispatch;
\* doorbellMute is not consulted
Rings(buttonPushed, mute) == buttonPushed

MuteSetWritesAlways(value, enableOutput) ==
  IF enableOutput THEN <<FALSE>> ELSE <<>>

\* lines 221-223: clearing mute drives the output pin low
MuteSetWrites(value, enableOutput) ==
  IF ~value /\ enableOutput THEN <<FALSE>> ELSE <<>>

RestoredMuteForgotten(item) == FALSE

\* line 64: getItemSync(doorbellMuteKey) || false
RestoredMute(item) == OrFalse(item)

\* the level the output pin is left at by a sequence of writes
Written(level, writes) ==
  IF writes = <<>> THEN level ELSE writes[Len(writes)]

\* lines 125-208: the setTimeout callback, as the fields it leaves and the
\* effects it has; superseded: a later handlePinChange was notified before
\* this callback ran (a later timer is pending behind it); later: what the
\* second Date.now() (line 175) returns, the first one (line 165) being now;
\* mute: this.doorbellMute
CallbackWith(changeTimeStamp, superseded, later, mute) ==
  LET base == [Fx("timer") EXCEPT !.superseded = superseded]
      Out(value, rang, sent, f) ==
        [value |-> value, rang |-> rang, sent |-> sent, fx |-> f,
         now |-> IF f.sinks = <<>> THEN now ELSE later]
  IN
  IF ~IsLastChange(changeTimeStamp, lastPinChangeDate)
  THEN Out(currentPinValue, lastRang, 0, [base EXCEPT !.stale = TRUE])
  ELSE
    LET currentValue == read(pinLevel) IN
    IF IsNoChange(currentValue, currentPinValue)
    THEN Out(currentPinValue, lastRang, 0,
             [base EXCEPT !.read = currentValue])
    ELSE
      LET buttonPushed == ButtonPushed(currentValue, cfg.negateInput)
          writes == IF WritesOutput(cfg.enableOutput, mute)
                    THEN <<buttonPushed>> ELSE <<>>
          acc == [base EXCEPT !.read = currentValue, !.accepted = TRUE,
                              !.pushed = buttonPushed, !.writes = writes]
      IN
      IF ~Rings(buttonPushed, mute)
      THEN Out(currentValue, lastRang, 0, acc)
      ELSE IF Throttled(lastRang, now)
      THEN Out(currentValue, lastRang, 0, [acc EXCEPT !.throttled = TRUE])
      ELSE
        LET sink == RingSink(cfg.enableHttpTrigger, cfg.httpTriggerUrl) IN
        Out(currentValue, later, IF sink = "remote" THEN 1 ELSE 0,
            [acc EXCEPT !.sinks = <<sink>>])

\* the callback as it runs: on the current doorbellMute
Callback(changeTimeStamp, superseded, later) ==
  CallbackWith(changeTimeStamp, superseded, later, doorbellMute)

\* ---------------------------------------------------------------- actions

\* the process has not been ended by an unhandled rejection (see
\* AxiosSettles)
Running == ~fx.fatal

\* lines 29-73 and 92-102: the process starts again on the same storage;
\* timers and requests of the old process are gone; GPIO.setup(DIR_LOW)
\* drives the output pin low when output is enabled
Restart ==
  /\ doorbellMute' = RestoredMute(stored)
  /\ stored' = Level(RestoredMute(stored))
  /\ currentPinValue' = read(pinLevel)
  /\ lastPinChangeDate' = NoTime
  /\ lastRang' = NoTime
  /\ timers' = <<>>
  /\ requests' = 0
  /\ outPin' = IF cfg.enableOutput THEN FALSE ELSE outPin
  /\ fx' = Fx("restart")
  /\ UNCHANGED <<cfg, now, pinLevel, lastSet>>

\* the clock advances by a millisecond, whether the process runs or not
Tick ==
  /\ now < MaxTime
  /\ now' = now + 1
  /\ fx' = [Fx("tick") EXCEPT !.fatal = fx.fatal]
  /\ UNCHANGED <<cfg, pinLevel, currentPinValue, lastPinChangeDate, lastRang,
                 doorbellMute, stored, timers, outPin, requests, lastSet>>

handlePinChangeTrusting ==
  /\ Running
  /\ Len(timers) < MaxTimers
  /\ pinLevel' = ~pinLevel
  /\ lastPinChangeDate' = now
  /\ currentPinValue' = Level(pinLevel')
  /\ timers' = Append(timers, [id |-> now, due |-> now + GlitchTime])
  /\ fx' = Fx("edge")
  /\ UNCHANGED <<cfg, now, lastRang, doorbellMute, stored, outPin, requests,
                 lastSet>>

\* lines 93 and 109-213: the input pin changes level and rpi-gpio reports
\* it; handlePinChange stamps the change and schedules the callback
handlePinChange ==
  /\ Running
  /\ Len(timers) < MaxTimers
  /\ pinLevel' = ~pinLevel
  /\ lastPinChangeDate' = now
  /\ timers' = Append(timers, [id |-> now, due |-> now + GlitchTime])
  /\ fx' = Fx("edge")
  /\ UNCHANGED <<cfg, now, currentPinValue, lastRang, doorbellMute, stored,
                 outPin, requests, lastSet>>

\* lines 124-212: the oldest pending callback runs, no earlier than
\* glitchTime after it was scheduled (timers of one delay run in the order
\* they were set); the clock may move on between its two readings
TimerFires ==
  /\ Running
  /\ timers # <<>>
  /\ now >= Head(timers).due
  /\ \E later \in {now, IF now < MaxTime THEN now + 1 ELSE now} :
     LET r == Callback(Head(timers).id, Len(timers) > 1, later) IN
       /\ now' = r.now
       /\ currentPinValue' = r.value
       /\ lastRang' = r.rang
       /\ requests' = requests + r.sent
       /\ outPin' = Written(outPin, r.fx.writes)
       /\ fx' = r.fx
  /\ timers' = Tail(timers)
  /\ UNCHANGED <<cfg, pinLevel, lastPinChangeDate, doorbellMute, stored,
                 lastSet>>

\* lines 215-224; bound to the Mute characteristic only when output is
\* enabled (lines 55-61)
handleMuteSet ==
  /\ Running
  /\ cfg.enableOutput
  /\ \E value \in BOOLEAN :
       /\ doorbellMute' = value
       /\ stored' = Level(value)
       /\ lastSet' = Level(value)
       /\ LET w == MuteSetWrites(value, cfg.enableOutput) IN
            /\ outPin' = Written(outPin, w)
            /\ fx' = [Fx("muteSet") EXCEPT !.writes = w, !.ret = value]
  /\ UNCHANGED <<cfg, now, pinLevel, currentPinValue, lastPinChangeDate,
                 lastRang, timers, requests>>

\* lines 226-229
handleMuteGet ==
  /\ Running
  /\ cfg.enableOutput
  /\ fx' = [Fx("muteGet") EXCEPT !.ret = doorbellMute]
  /\ UNCHANGED <<cfg, now, pinLevel, currentPinValue, lastPinChangeDate,
                 lastRang, doorbellMute, stored, timers, outPin, requests,
                 lastSet>>

\* lines 192-205: the promise of axios.get(url) settles. It was not awaited
\* and has no catch handler, so the try block was left long ago: a rejection
\* reaches nobody (an unhandled rejection) and nothing is logged. What the
\* runtime does with an unhandled rejection is its choice: a warning, or
\* (the default since Node 15) an uncaught exception that ends the process,
\* with its timers, its requests and its fields.
AxiosSettles ==
  /\ Running
  /\ requests > 0
  /\ \E failed \in BOOLEAN : \E fatal \in {FALSE, failed} :
       /\ fx' = [Fx("settle") EXCEPT !.failed = failed, !.uncaught = failed,
                                     !.fatal = fatal]
       /\ requests' = IF fatal THEN 0 ELSE requests - 1
       /\ timers' = IF fatal THEN <<>> ELSE timers
       /\ currentPinValue' = IF fatal THEN Undefined ELSE currentPinValue
       /\ lastPinChangeDate' = IF fatal THEN NoTime ELSE lastPinChangeDate
       /\ lastRang' = IF fatal THEN NoTime ELSE lastRang
  /\ UNCHANGED <<cfg, now, pinLevel, doorbellMute, stored, outPin, lastSet>>

\* lines 143-150 on a given value of currentValue: the level is stored and
\* buttonPushed derived from it
DerivePress ==
  \E currentValue \in Tri :
    /\ currentPinValue' = currentValue
    /\ fx' = [Fx("derive") EXCEPT
                !.read = currentValue, !.accepted = TRUE,
                !.pushed = ButtonPushed(currentValue, cfg.negateInput)]
    /\ UNCHANGED <<cfg, now, pinLevel, lastPinChangeDate, lastRang,
                   doorbellMute, stored, timers, outPin, requests, lastSet>>

\* --------------------------------------------------------- specifications

\* the accessory as constructed on a fresh storage (lines 29-102)
Init ==
  /\ cfg \in Config
  /\ now = 1
  /\ pinLevel \in BOOLEAN
  /\ currentPinValue = read(pinLevel)
  /\ lastPinChangeDate = NoTime
  /\ lastRang = NoTime
  /\ doorbellMute = RestoredMute(Undefined)
  /\ stored = Level(RestoredMute(Undefined))
  /\ timers = <<>>
  /\ outPin = FALSE
  /\ requests = 0
  /\ lastSet = "none"
  /\ fx = Fx("init")

\* Every step the running accessory can take. No request is ever sent in a
\* run (the callback always returns at line 140, see read), so AxiosSettles
\* is not among them.
Next ==
  \/ Restart
  \/ Tick
  \/ handlePinChange
  \/ TimerFires
  \/ handleMuteSet
  \/ handleMuteGet

Spec == Init /\ [][Next]_vars

\* The handlers on every valuation of the fields that their declared types
\* admit (lines 22-27): the contract of the callback, of handleMuteSet and of
\* the request's completion, whatever the fields hold.
InitHandlers ==
  /\ cfg \in Config
  /\ now \in 0..MaxStart
  /\ pinLevel \in BOOLEAN
  /\ currentPinValue \in Tri
  /\ lastPinChangeDate = NoTime
  /\ lastRang \in {NoTime} \cup 0..now
  /\ doorbellMute \in BOOLEAN
  /\ stored = Level(doorbellMute)
  /\ timers = <<>>
  /\ outPin \in BOOLEAN
  /\ requests = 0
  /\ lastSet = "none"
  /\ fx = Fx("init")

NextHandlers == Next \/ AxiosSettles

SpecHandlers == InitHandlers /\ [][NextHandlers]_vars

\* buttonPushed as a function of the level and of negateInput: lines
\* 143-150 applied to every value of currentValue
SpecDerive == Init /\ [][DerivePress]_vars

\* ----------------------------------------------------------------- claims

\* a step of TimerFires: the oldest pending callback ran
TimerStep == timers # <<>> /\ timers' = Tail(timers) /\ fx'.op = "timer"

\* a step that leaves the accepted level, the throttle state and the output
\* pin alone and invokes no ring sink
NoEffect ==
  /\ now' = now
  /\ currentPinValue' = currentPinValue
  /\ lastRang' = lastRang
  /\ outPin' = outPin
  /\ fx'.writes = <<>>
  /\ fx'.sinks = <<>>

C2_Acceptance ==
  [][(TimerStep /\ Len(timers) = 1
        /\ Head(timers).id = lastPinChangeDate
        /\ Level(pinLevel) # currentPinValue)
      => currentPinValue' = Level(pinLevel)]_vars

\* a step of TimerFires that accepted a level and derived a press from it
PressStep == TimerStep /\ fx'.accepted /\ fx'.pushed

C4_DispatchExclusivity ==
  (fx.op = "timer" /\ fx.accepted /\ fx.pushed /\ ~fx.throttled) =>
    IF cfg.enableHttpTrigger /\ cfg.httpTriggerUrl
    THEN fx.sinks = <<"remote">> /\ requests > 0
    ELSE fx.sinks = <<"local">>

\* a press went to the HomeKit event although enableHttpTrigger is set,
\* because no URL is configured
C4_Witness ==
  /\ fx.op = "timer" /\ fx.sinks = <<"local">>
  /\ cfg.enableHttpTrigger /\ ~cfg.httpTriggerUrl

\* C5 (mute gating): a callback that runs while doorbellMute is true does
\* not write the output pin, which keeps its level.
C5_MuteGating ==
  [][(TimerStep /\ doorbellMute) => (fx'.writes = <<>> /\ outPin' = outPin)
    ]_vars

\* a press was accepted and rang while muted, with output enabled and the
\* output pin low: nothing was written
C5_Witness ==
  /\ fx.op = "timer" /\ fx.accepted /\ fx.pushed /\ fx.sinks # <<>>
  /\ doorbellMute /\ cfg.enableOutput /\ fx.writes = <<>> /\ ~outPin

\* C6 (output mirroring): with output enabled and doorbellMute false, a
\* callback that accepts a level writes the output pin exactly once, with
\* the derived buttonPushed, also when the press is then throttled.
C6_OutputMirroring ==
  [][(TimerStep /\ fx'.accepted /\ cfg.enableOutput /\ ~doorbellMute) =>
       /\ fx'.writes = <<ButtonPushed(fx'.read, cfg.negateInput)>>
       /\ outPin' = ButtonPushed(fx'.read, cfg.negateInput)
    ]_vars

\* a throttled press drove the output pin high
C6_Witness ==
  /\ fx.op = "timer" /\ fx.accepted /\ fx.pushed /\ fx.throttled
  /\ fx.writes = <<TRUE>> /\ outPin

\* C7 (mute clear): handleMuteSet(false) with output enabled writes the
\* output pin exactly once, with false.
C7_MuteClear ==
  [][(fx'.op = "muteSet" /\ doorbellMute' = FALSE /\ lastSet' = "false"
        /\ cfg.enableOutput)
      => (fx'.writes = <<FALSE>> /\ outPin' = FALSE)]_vars

\* mute was cleared while the accepted level and the pin's live level were
\* high, and the output pin is low
C7_Witness ==
  /\ fx.op = "muteSet" /\ ~doorbellMute /\ fx.writes = <<FALSE>>
  /\ pinLevel /\ currentPinValue = "true" /\ ~outPin

\* C8 (mute durability): the persisted item always equals doorbellMute, and
\* doorbellMute, which handleMuteGet returns, is the argument of the latest
\* handleMuteSet, or false when there was none, across restarts.
C8_MuteDurability ==
  /\ stored = Level(doorbellMute)
  /\ doorbellMute = (lastSet = "true")
  /\ fx.op = "muteGet" => fx.ret = (lastSet = "true")

\* the process has just restarted and mute, set before, is true again
C8_Witness ==
  fx.op = "restart" /\ doorbellMute /\ stored = "true" /\ lastSet = "true"

C11_InvertSemantics ==
  (fx.op = "derive" /\ fx.read \in {"true", "false"}) =>
    fx.pushed = (IF cfg.negateInput THEN fx.read = "true"
                                    ELSE fx.read # "true")

\* level true with negateInput set gave buttonPushed = true
C11_Witness ==
  fx.op = "derive" /\ fx.read = "true" /\ cfg.negateInput /\ fx.pushed

\* C12 (mute does not affect ring dispatch), as the step condition that
\* makes two runs on the same edges, levels and times agree: what a callback
\* leaves in currentPinValue and lastRang, the request it sends and the ring
\* sinks it invokes are what it would have left, sent and invoked on either
\* value of doorbellMute; and handleMuteSet touches none of them.
C12_MuteIndependence ==
  [][/\ TimerStep =>
          \A mute \in BOOLEAN :
            LET r == CallbackWith(Head(timers).id, Len(timers) > 1, now', mute)
            IN /\ currentPinValue' = r.value
               /\ lastRang' = r.rang
               /\ requests' = requests + r.sent
               /\ fx'.sinks = r.fx.sinks
     /\ fx'.op = "muteSet" =>
          /\ UNCHANGED <<currentPinValue, lastRang, lastPinChangeDate, timers,
                         requests, now>>
          /\ fx'.sinks = <<>>
    ]_vars

\* a press sent the request and set lastRang while muted
C12_Witness ==
  /\ fx.op = "timer" /\ fx.sinks = <<"remote">> /\ doorbellMute
  /\ lastRang = now /\ requests > 0

\* C13 (release transitions): a callback that accepts a level from which no
\* press is derived invokes no ring sink, sends no request and leaves
\* lastRang alone; it only stores the level and may write the output pin.
C13_Release ==
  [][(TimerStep /\ fx'.accepted /\ ~fx'.pushed) =>
       /\ fx'.sinks = <<>> /\ ~fx'.throttled
       /\ UNCHANGED <<lastRang, requests, now, lastPinChangeDate, doorbellMute,
                      stored>>
       /\ currentPinValue' = fx'.read
    ]_vars

\* a release was accepted after a ring, and drove the output pin low
C13_Witness ==
  /\ fx.op = "timer" /\ fx.accepted /\ ~fx.pushed /\ fx.writes = <<FALSE>>
  /\ lastRang # NoTime

\* C14 (no-op idempotence): a callback that is not stale and reads the value
\* currentPinValue already holds changes nothing; so a callback that accepts
\* always changes currentPinValue.
C14_NoOp ==
  [][TimerStep =>
       /\ (~fx'.stale /\ read(pinLevel) = currentPinValue)
            => (NoEffect /\ ~fx'.accepted /\ requests' = requests)
       /\ fx'.accepted => currentPinValue' # currentPinValue
    ]_vars

\* the callback of the latest change read the pin and ended at line 140
C14_Witness ==
  /\ fx.op = "timer" /\ ~fx.stale /\ fx.read = currentPinValue
  /\ ~fx.accepted

\* C15 (seeding): when the constructor has run, currentPinValue is the
\* input pin's live level.
C15_Seeding ==
  fx.op \in {"init", "restart"} => currentPinValue = Level(pinLevel)

\* C16 (identifier uniqueness): at most one pending callback carries the
\* current lastPinChangeDate.
C16_UniqueIdentifier ==
  Cardinality({i \in 1..Len(timers) : timers[i].id = lastPinChangeDate}) <= 1

C18_EdgeFrame ==
  [][/\ fx'.op = "edge" =>
          /\ timers' = Append(timers, [id |-> lastPinChangeDate',
                                       due |-> now + GlitchTime])
          /\ lastPinChangeDate' = now
          /\ UNCHANGED <<currentPinValue, lastRang, doorbellMute, stored,
                         outPin, requests, now>>
          /\ fx'.writes = <<>> /\ fx'.sinks = <<>>
     /\ TimerStep => now >= Head(timers).due
     /\ (Running' /\ currentPinValue' # currentPinValue)
          => ((TimerStep /\ fx'.accepted) \/ fx'.op = "restart")
    ]_vars

\* a second change was notified while the callback of the first was pending
\* and an accepted level was held
C18_Witness ==
  /\ fx.op = "edge" /\ Len(timers) = 2 /\ timers[1].id # timers[2].id
  /\ currentPinValue = "true"

====
